---- MODULE Spec2Model ----
(***************************************************************************)
(* Model of the Superpowers execution shim:                                *)
(*   scripts/config.py        find_agent_root, load_config, save_config     *)
(*   scripts/set_backend.py   main                                          *)
(*   scripts/execute_task.py  find_repo_root, load_skill_instructions,      *)
(*                            run_gemini_backend, run_claude_backend,       *)
(*                            execute_task                                  *)
(*                                                                         *)
(* Three specifications share the module:                                  *)
(*   Spec      one execute_task call, statement by statement               *)
(*   WalkSpec  the two upward directory walks, set_backend and the         *)
(*             executor's configuration read over a directory chain        *)
(*   PipeSpec  the parent/child pipe protocol of the subprocess hand-off,  *)
(*             with weak fairness of the parent and of the child           *)
(***************************************************************************)
EXTENDS Integers, Sequences, FiniteSets, TLC

VARIABLES
    \* ---- one execute_task call (Spec) ----
    pc,             \* position of the call
    config_json,    \* content of <root>/.agent/config.json
    skill_md,       \* content of <root>/.agent/skills/superpowers-<skill>/SKILL.md
    fault,          \* the I/O operation that fails during this call, if any
    background,     \* execute_task(background=...)
    output_format,  \* execute_task(output_format=...)
    backend,        \* local `backend` of execute_task
    dispatched,     \* which backend function was called
    spawned,        \* number of subprocesses created by this call
    log_exists,     \* the log file named log_file exists on disk
    child_out,      \* everything the subprocess writes to its output
    child_rc,       \* exit code of the subprocess
    pending,        \* part of child_out not yet read by the parent
    full_output,    \* local `full_output` (list of lines)
    output_str,     \* local `output_str`
    returncode,     \* local `returncode`
    inner,          \* dict returned by the backend function
    exc,            \* message of the exception in flight
    result,         \* dict returned by execute_task
    \* ---- directory walks (WalkSpec) ----
    height,         \* level of the filesystem root above the working directory
    agent_dirs,     \* levels of the chain that contain a directory .agent
    skills_dirs,    \* levels of the chain that contain an entry skills
    cfg_files,      \* level -> content of <level>/.agent/config.json
    last_set,       \* backend of the last completed set_backend
    walk_pc,        \* what ran last
    walk_dispatched,\* backend function the executor selected
    \* ---- pipes (PipeSpec) ----
    p_pc,           \* parent position
    prompt_len,     \* units of prompt to hand over
    written,        \* units of prompt written so far
    stdin_buf,      \* units in the stdin pipe
    stdin_closed,   \* parent closed the write end of stdin
    stdout_buf,     \* units in the stdout pipe
    stdout_closed,  \* child closed its output
    child_prog,     \* remaining reads/writes of the child before it drains stdin
    child_pc        \* child position

exec_vars == <<pc, config_json, skill_md, fault, background, output_format,
               backend, dispatched, spawned, log_exists, child_out, child_rc,
               pending, full_output, output_str, returncode, inner, exc, result>>
walk_vars == <<height, agent_dirs, skills_dirs, cfg_files, last_set, walk_pc,
               walk_dispatched>>
pipe_vars == <<p_pc, prompt_len, written, stdin_buf, stdin_closed,
               stdout_buf, stdout_closed, child_prog, child_pc>>
vars == <<exec_vars, walk_vars, pipe_vars>>

(***************************************************************************)
(* Bounds                                                                  *)
(***************************************************************************)
MaxOutLen == 4      \* longest subprocess output, in tokens
MaxHeight == 11     \* deepest working directory, in levels below /
MaxMarkers == 2     \* most .agent (and most skills) entries on the chain
MaxPrompt == 3      \* longest prompt, in pipe units
MaxChildOps == 3    \* longest scripted prefix of the child
PipeCap == 2        \* capacity of an OS pipe, in units

(***************************************************************************)
(* Text.  A text is a sequence of tokens: the two sentinel lines are one   *)
(* token each, "\n" is the only whitespace, "x" is any other character.    *)
(***************************************************************************)
START_MARKER == "---SUBAGENT-RESULT-START---"
END_MARKER == "---SUBAGENT-RESULT-END---"
Tokens == {START_MARKER, END_MARKER, "\n", "x"}
Whitespace == {"\n"}

Texts(n) == UNION {[1..k -> Tokens] : k \in 0..n}

\* `sep in s`
Contains(s, sep) == \E i \in 1..Len(s) : s[i] = sep

\* position of the first occurrence of sep in s (s contains sep)
FirstIndex(s, sep) == CHOOSE i \in 1..Len(s) :
                          s[i] = sep /\ \A j \in 1..(i-1) : s[j] # sep

\* s.split(sep, 1)
split(s, sep) ==
    IF Contains(s, sep)
    THEN LET i == FirstIndex(s, sep)
         IN  <<SubSeq(s, 1, i-1), SubSeq(s, i+1, Len(s))>>
    ELSE <<s>>

\* s.strip()
RECURSIVE lstrip(_)
lstrip(s) == IF s # <<>> /\ Head(s) \in Whitespace THEN lstrip(Tail(s)) ELSE s
RECURSIVE rstrip(_)
rstrip(s) == IF s # <<>> /\ s[Len(s)] \in Whitespace
             THEN rstrip(SubSeq(s, 1, Len(s)-1)) ELSE s
strip(s) == rstrip(lstrip(s))

\* process.stdout.readline(): up to and including the next newline
readline(s) == IF Contains(s, "\n") THEN SubSeq(s, 1, FirstIndex(s, "\n")) ELSE s

\* "".join(lines)
RECURSIVE join(_)
join(lines) == IF lines = <<>> THEN <<>> ELSE Head(lines) \o join(Tail(lines))

(***************************************************************************)
(* config.py                                                               *)
(***************************************************************************)
ABSENT == "<absent>"
\* contents of config.json that the model distinguishes
ConfigContents == {ABSENT, "not json", "[]", "{}",
                   "{execution_backend: gemini}", "{execution_backend: claude}",
                   "{execution_backend: codex}", "{execution_backend: 5}"}

None == [t |-> "none", v |-> ""]
Str(s) == [t |-> "str", v |-> s]
Int5 == [t |-> "int", v |-> "5"]
Dict(has, val) == [type |-> "dict", has_key |-> has, value |-> val]
List == [type |-> "list", has_key |-> FALSE, value |-> None]
DefaultConfig == Dict(TRUE, Str("gemini"))
ParseError == [type |-> "error", has_key |-> FALSE, value |-> None]

\* json.loads
json_loads(text) ==
    CASE text = "[]" -> List
      [] text = "{}" -> Dict(FALSE, None)
      [] text = "{execution_backend: gemini}" -> Dict(TRUE, Str("gemini"))
      [] text = "{execution_backend: claude}" -> Dict(TRUE, Str("claude"))
      [] text = "{execution_backend: codex}" -> Dict(TRUE, Str("codex"))
      [] text = "{execution_backend: 5}" -> Dict(TRUE, Int5)
      [] OTHER -> ParseError

\* json.dumps(config, indent=2) of a mapping
json_dumps(cfg) ==
    CASE ~cfg.has_key -> "{}"
      [] cfg.value = Int5 -> "{execution_backend: 5}"
      [] cfg.value = Str("gemini") -> "{execution_backend: gemini}"
      [] cfg.value = Str("claude") -> "{execution_backend: claude}"
      [] OTHER -> "{execution_backend: codex}"

load_config(content) ==
    IF content = ABSENT THEN DefaultConfig
    ELSE IF json_loads(content) = ParseError THEN DefaultConfig
    ELSE json_loads(content)

\* cfg.get("execution_backend", "gemini") on a mapping
cfg_get(cfg) == IF cfg.has_key THEN cfg.value ELSE Str("gemini")

(***************************************************************************)
(* execute_task.py: pure parts                                             *)
(***************************************************************************)
MISSING == "<missing>"
SkillContents == {MISSING, "", "instructions"}

load_skill_instructions(content) == IF content = MISSING THEN "" ELSE content

\* mutants of skill_absent: the test compares against None only / is inverted
skill_absent_none_only(instructions) == FALSE
skill_absent_inverted(instructions) == instructions # ""

\* `if not skill_instructions:` (run_gemini_backend 56, run_claude_backend 174)
skill_absent(instructions) == instructions = ""

\* the branch of `if backend == "claude": ... else: ...`
select_backend(b) == IF b = Str("claude") THEN "claude" ELSE "gemini"

\* lines 145-151 of run_gemini_backend
extract_result(out) ==
    IF Contains(out, START_MARKER)
    THEN LET parts == split(out, START_MARKER)
         IN  IF Len(parts) > 1
             THEN strip(split(parts[2], END_MARKER)[1])
             ELSE out
    ELSE out

NoOutput == <<"<no output key>">>
Inner(has, ok, out, err) ==
    [has_output |-> has, success |-> ok, output |-> out, error |-> err]
NoInner == Inner(FALSE, FALSE, NoOutput, "<none>")

SKILL_NOT_FOUND == "Skill not found: <root>/.agent/skills/superpowers-<skill>/SKILL.md"

skill_not_found_result == Inner(FALSE, FALSE, NoOutput, SKILL_NOT_FOUND)

\* mutant of gemini_result: success also requires the start marker in the output
gemini_result_needs_marker(rc, out) ==
    Inner(TRUE, rc = 0 /\ Contains(out, START_MARKER), extract_result(out),
          IF rc = 0 /\ Contains(out, START_MARKER) THEN "" ELSE "Process failed")

gemini_result(rc, out) ==
    Inner(TRUE, rc = 0, extract_result(out), IF rc = 0 THEN "" ELSE "Process failed")

claude_result(rc, out) ==
    Inner(TRUE, rc = 0, out, IF rc = 0 THEN "" ELSE "Process failed")

NoResult == [returned |-> FALSE, success |-> FALSE, output |-> <<>>, error |-> "",
             log_file |-> "", backend |-> None]
Result(ok, out, err, b) ==
    [returned |-> TRUE, success |-> ok, output |-> out, error |-> err,
     log_file |-> "<log_file>", backend |-> b]

(***************************************************************************)
(* Spec: one call of execute_task(skill, task, repo_root, yolo,            *)
(* background, output_format)                                              *)
(***************************************************************************)
Faults == {"none", "mkdir", "open", "spawn", "read"}
ExitCodes == {0, 1, -15}

WalkIdle ==
    /\ height = 0 /\ agent_dirs = {} /\ skills_dirs = {}
    /\ cfg_files = [l \in 0..0 |-> ABSENT]
    /\ last_set = "none" /\ walk_pc = "idle" /\ walk_dispatched = "none"

PipeIdle ==
    /\ p_pc = "idle" /\ prompt_len = 0 /\ written = 0
    /\ stdin_buf = 0 /\ stdin_closed = FALSE /\ stdout_buf = 0
    /\ stdout_closed = FALSE /\ child_prog = <<>> /\ child_pc = "idle"

ExecIdle ==
    /\ pc = "idle" /\ config_json = ABSENT /\ skill_md = MISSING
    /\ fault = "none" /\ background = FALSE /\ output_format = "text"
    /\ backend = None /\ dispatched = "none" /\ spawned = 0
    /\ log_exists = FALSE /\ child_out = <<>> /\ child_rc = 0
    /\ pending = <<>> /\ full_output = <<>> /\ output_str = <<>>
    /\ returncode = 0 /\ inner = NoInner /\ exc = "" /\ result = NoResult

Init ==
    /\ pc = "load_config"
    /\ config_json \in ConfigContents
    /\ skill_md \in SkillContents
    /\ fault \in Faults
    /\ background \in BOOLEAN
    /\ output_format \in {"text", "json"}
    /\ backend = None /\ dispatched = "none" /\ spawned = 0
    /\ log_exists = FALSE /\ child_out = <<>> /\ child_rc = 0
    /\ pending = <<>> /\ full_output = <<>> /\ output_str = <<>>
    /\ returncode = 0 /\ inner = NoInner /\ exc = "" /\ result = NoResult
    /\ WalkIdle /\ PipeIdle

\* execute_task lines 255-257, outside the try block
LoadConfig ==
    /\ pc = "load_config"
    /\ LET cfg == load_config(config_json)
       IN  IF cfg.type = "dict"
           THEN /\ backend' = cfg_get(cfg)
                /\ pc' = "setup_log"
                /\ exc' = exc
           ELSE /\ exc' = "'list' object has no attribute 'get'"
                /\ pc' = "raised"
                /\ backend' = backend
    /\ UNCHANGED <<config_json, skill_md, fault, background, output_format,
                   dispatched, spawned, log_exists, child_out, child_rc, pending,
                   full_output, output_str, returncode, inner, result>>
    /\ UNCHANGED <<walk_vars, pipe_vars>>

\* execute_task lines 259-270, outside the try block
SetupLog ==
    /\ pc = "setup_log"
    /\ IF fault = "mkdir"
       THEN /\ exc' = "[Errno 13] Permission denied: '<log_dir>'"
            /\ pc' = "raised"
       ELSE IF output_format = "text" /\ ~background /\ backend.t # "str"
       THEN /\ exc' = "'int' object has no attribute 'upper'"
            /\ pc' = "raised"
       ELSE /\ exc' = exc
            /\ pc' = "dispatch"
    /\ UNCHANGED <<config_json, skill_md, fault, background, output_format,
                   backend, dispatched, spawned, log_exists, child_out, child_rc,
                   pending, full_output, output_str, returncode, inner, result>>
    /\ UNCHANGED <<walk_vars, pipe_vars>>

\* execute_task lines 272-276 and the head of the backend function
\* (run_gemini_backend 52-57, run_claude_backend 171-175)
Dispatch ==
    /\ pc = "dispatch"
    /\ dispatched' = select_backend(backend)
    /\ IF skill_absent(load_skill_instructions(skill_md))
       THEN /\ inner' = skill_not_found_result
            /\ pc' = "summarize"
       ELSE /\ inner' = inner
            /\ pc' = "open_log"
    /\ UNCHANGED <<config_json, skill_md, fault, background, output_format,
                   backend, spawned, log_exists, child_out, child_rc, pending,
                   full_output, output_str, returncode, exc, result>>
    /\ UNCHANGED <<walk_vars, pipe_vars>>

\* with open(log_file, "w") ...: run_gemini_backend 86-89, run_claude_backend 201-204
OpenLog ==
    /\ pc = "open_log"
    /\ IF fault = "open"
       THEN /\ exc' = "[Errno 13] Permission denied: '<log_file>'"
            /\ pc' = "except"
            /\ log_exists' = log_exists
       ELSE /\ log_exists' = TRUE
            /\ pc' = "spawn"
            /\ exc' = exc
    /\ UNCHANGED <<config_json, skill_md, fault, background, output_format,
                   backend, dispatched, spawned, child_out, child_rc, pending,
                   full_output, output_str, returncode, inner, result>>
    /\ UNCHANGED <<walk_vars, pipe_vars>>

\* subprocess.Popen + stdin.write + stdin.close:
\* run_gemini_backend 98-114 (stream_output), run_claude_backend 206-221 (always)
Popen ==
    /\ pc = "spawn"
    /\ dispatched = "claude" \/ ~background
    /\ IF fault = "spawn"
       THEN /\ exc' = "[Errno 12] Cannot allocate memory"
            /\ pc' = "except"
            /\ UNCHANGED <<spawned, child_out, child_rc, pending>>
       ELSE /\ spawned' = spawned + 1
            /\ child_out' \in Texts(MaxOutLen)
            /\ child_rc' \in ExitCodes
            /\ pending' = child_out'
            /\ pc' = "read_loop"
            /\ exc' = exc
    /\ full_output' = <<>>
    /\ UNCHANGED <<config_json, skill_md, fault, background, output_format,
                   backend, dispatched, log_exists, output_str, returncode,
                   inner, result>>
    /\ UNCHANGED <<walk_vars, pipe_vars>>

\* one iteration of the read loop that gets a line:
\* run_gemini_backend 115-123, run_claude_backend 222-231
ReadLine ==
    /\ pc = "read_loop"
    /\ pending # <<>>
    /\ IF fault = "read"
       THEN /\ exc' = "'utf-8' codec can't decode byte 0xff"
            /\ pc' = "except"
            /\ UNCHANGED <<pending, full_output>>
       ELSE LET line == readline(pending)
            IN  /\ full_output' = Append(full_output, line)
                /\ pending' = SubSeq(pending, Len(line) + 1, Len(pending))
                /\ pc' = pc
                /\ exc' = exc
    /\ UNCHANGED <<config_json, skill_md, fault, background, output_format,
                   backend, dispatched, spawned, log_exists, child_out, child_rc,
                   output_str, returncode, inner, result>>
    /\ UNCHANGED <<walk_vars, pipe_vars>>

\* the iteration that reads "" after the child exited, and the two lines after
\* the loop: run_gemini_backend 116-118, 125-126, run_claude_backend 223-225, 233-234
ReadLoopExit ==
    /\ pc = "read_loop"
    /\ pending = <<>>
    /\ returncode' = child_rc
    /\ output_str' = join(full_output)
    /\ pc' = "backend_return"
    /\ UNCHANGED <<config_json, skill_md, fault, background, output_format,
                   backend, dispatched, spawned, log_exists, child_out, child_rc,
                   pending, full_output, inner, exc, result>>
    /\ UNCHANGED <<walk_vars, pipe_vars>>

\* background mode of the gemini backend: run_gemini_backend 128-143
SubprocessRun ==
    /\ pc = "spawn"
    /\ dispatched = "gemini" /\ background
    /\ IF fault = "spawn"
       THEN /\ exc' = "[Errno 12] Cannot allocate memory"
            /\ pc' = "except"
            /\ UNCHANGED <<spawned, child_out, child_rc, returncode, output_str>>
       ELSE IF fault = "read"
       THEN /\ spawned' = spawned + 1
            /\ exc' = "Command 'gemini' timed out after 600 seconds"
            /\ pc' = "except"
            /\ UNCHANGED <<child_out, child_rc, returncode, output_str>>
       ELSE /\ spawned' = spawned + 1
            /\ child_out' \in Texts(MaxOutLen)
            /\ child_rc' \in ExitCodes
            /\ returncode' = child_rc'
            /\ output_str' = child_out'
            /\ pc' = "backend_return"
            /\ exc' = exc
    /\ UNCHANGED <<config_json, skill_md, fault, background, output_format,
                   backend, dispatched, log_exists, pending, full_output,
                   inner, result>>
    /\ UNCHANGED <<walk_vars, pipe_vars>>

\* run_gemini_backend 145-158, run_claude_backend 236-241
BackendReturn ==
    /\ pc = "backend_return"
    /\ inner' = IF dispatched = "claude"
                THEN claude_result(returncode, output_str)
                ELSE gemini_result(returncode, output_str)
    /\ pc' = "summarize"
    /\ UNCHANGED <<config_json, skill_md, fault, background, output_format,
                   backend, dispatched, spawned, log_exists, child_out, child_rc,
                   pending, full_output, output_str, returncode, exc, result>>
    /\ UNCHANGED <<walk_vars, pipe_vars>>

\* execute_task lines 278-288; result["output"] raises KeyError when the backend
\* function returned no "output" key
Summarize ==
    /\ pc = "summarize"
    /\ IF inner.has_output
       THEN /\ result' = Result(inner.success, inner.output, inner.error, backend)
            /\ pc' = "returned"
            /\ exc' = exc
       ELSE /\ exc' = "'output'"
            /\ pc' = "except"
            /\ result' = result
    /\ UNCHANGED <<config_json, skill_md, fault, background, output_format,
                   backend, dispatched, spawned, log_exists, child_out, child_rc,
                   pending, full_output, output_str, returncode, inner>>
    /\ UNCHANGED <<walk_vars, pipe_vars>>

\* execute_task lines 290-300
Except ==
    /\ pc = "except"
    /\ result' = Result(FALSE, <<>>, exc, backend)
    /\ pc' = "returned"
    /\ UNCHANGED <<config_json, skill_md, fault, background, output_format,
                   backend, dispatched, spawned, log_exists, child_out, child_rc,
                   pending, full_output, output_str, returncode, inner, exc>>
    /\ UNCHANGED <<walk_vars, pipe_vars>>

Next ==
    \/ LoadConfig
    \/ SetupLog
    \/ Dispatch
    \/ OpenLog
    \/ Popen
    \/ ReadLine
    \/ ReadLoopExit
    \/ SubprocessRun
    \/ BackendReturn
    \/ Summarize
    \/ Except

Spec == Init /\ [][Next]_vars

(***************************************************************************)
(* Claims about one execute_task call (checked under Spec)                 *)
(***************************************************************************)
CallOver == pc \in {"returned", "raised"}
SkillMissingOrEmpty == skill_md \in {MISSING, ""}
\* a subprocess was created and no exception ended the call
RanToExit == pc = "returned" /\ spawned = 1 /\ exc = ""

\* C1: execute_task never lets an exception escape to its caller: the call
\* never ends by raising, whatever the configuration content and whatever
\* I/O operation fails.
C1_NoExceptionEscapes == pc # "raised"

\* C2: when the skill file is missing or empty, no subprocess is spawned at
\* any point of the call, and the result that is returned has success=false.
C2_MissingSkillFailsWithoutSpawn ==
    SkillMissingOrEmpty =>
        /\ spawned = 0
        /\ pc \notin {"open_log", "spawn", "read_loop", "backend_return"}
        /\ (pc = "returned" => result.returned /\ ~result.success)

C2_Witness ==
    /\ pc = "returned" /\ skill_md = "" /\ dispatched = "claude" /\ background
    /\ result.returned /\ ~result.success /\ spawned = 0

\* C3: with a skill whose SKILL.md does not exist, the error field of the
\* result returned by execute_task is "Skill not found: <path>".
C3_ErrorNamesMissingSkill ==
    (pc = "returned" /\ skill_md = MISSING) => result.error = SKILL_NOT_FOUND

\* C4: after any execute_task call that returned a result, the log file named
\* in the result's log_file field exists on disk (stated here for the calls in
\* which no I/O operation fails; the claim covers the others too).
C4_LogFileExistsAfterCall == (pc = "returned" /\ fault = "none") => log_exists

\* C5 (as stated): over the whole run of any call exactly one subprocess is
\* spawned (stated here for the calls that return a result and in which no I/O
\* operation fails; the claim covers the others too).
C5_ExactlyOneSpawn == (pc = "returned" /\ fault = "none") => spawned = 1

\* the call gets as far as spawning and the spawn succeeds
SpawnExpected ==
    /\ load_config(config_json).type = "dict"
    /\ fault \notin {"mkdir", "open", "spawn"}
    /\ ~(output_format = "text" /\ ~background
         /\ cfg_get(load_config(config_json)).t # "str")
    /\ ~SkillMissingOrEmpty

\* C5 (amended): at most one subprocess is spawned per call and nothing is
\* retried; a finished call spawned exactly one when the skill file is
\* non-empty and the call got as far as a successful spawn, and none otherwise.
C5_AtMostOneSpawn ==
    /\ spawned <= 1
    /\ CallOver => (spawned = 1 <=> SpawnExpected)

C5_Witness ==
    /\ pc = "returned" /\ spawned = 1 /\ SpawnExpected
    /\ fault = "read" /\ exc # "" /\ ~result.success

\* C6: for both backends, when the output contains the start marker followed
\* by the end marker the result's output is the text between them, trimmed;
\* when neither marker occurs it is the captured output unchanged.
BetweenMarkers(out) ==
    LET i == FirstIndex(out, START_MARKER)
        rest == SubSeq(out, i + 1, Len(out))
        j == FirstIndex(rest, END_MARKER)
    IN  strip(SubSeq(rest, 1, j - 1))
HasBothMarkers(out) ==
    /\ Contains(out, START_MARKER)
    /\ Contains(SubSeq(out, FirstIndex(out, START_MARKER) + 1, Len(out)), END_MARKER)
C6_OutputIsTextBetweenMarkers ==
    RanToExit =>
        /\ HasBothMarkers(child_out) => result.output = BetweenMarkers(child_out)
        /\ (~Contains(child_out, START_MARKER) /\ ~Contains(child_out, END_MARKER))
               => result.output = child_out

\* C7: when a subprocess was spawned and ran to exit, success is decided by
\* the exit code alone: 0 gives success=true and an empty error, anything else
\* success=false and the error "Process failed".
C7_SuccessIffExitZero ==
    RanToExit =>
        /\ result.success = (child_rc = 0)
        /\ result.error = IF child_rc = 0 THEN "" ELSE "Process failed"

C7_Witness ==
    /\ RanToExit /\ dispatched = "gemini" /\ child_rc = 0
    /\ ~Contains(child_out, START_MARKER) /\ child_out # <<>>
    /\ result.success

\* C10: whenever a command was run, the backend field of the result names the
\* backend whose command it was, for every execution_backend value found in
\* the configuration.
C10_BackendFieldNamesDispatched ==
    (pc = "returned" /\ spawned = 1) =>
        /\ result.backend = Str("claude") <=> dispatched = "claude"
        /\ result.backend = Str("gemini") <=> dispatched = "gemini"

(***************************************************************************)
(* WalkSpec: the working directory D and its ancestors form a chain of     *)
(* levels 0 (D) .. height (the filesystem root, its own parent).           *)
(* set_backend and execute_task are both started from D.                   *)
(***************************************************************************)
WalkBound == 10

Levels == 0..height
parent(curr) == IF curr = height THEN curr ELSE curr + 1
has_agent(curr) == curr \in agent_dirs
has_skills(curr) == curr \in skills_dirs

\* a Path: either <level>/.agent resp. <level>, absolute, or relative to cwd
AbsPath(l) == [relative |-> FALSE, level |-> l]
RelPath == [relative |-> TRUE, level |-> 0]
\* the directory level a path denotes for a process whose cwd is level 0
resolve(path) == IF path.relative THEN 0 ELSE path.level

\* config.find_agent_root: the path of the .agent directory (given by the
\* level that contains it); the fallback Path(".agent") is relative
RECURSIVE agent_walk(_, _)
agent_walk(curr, i) ==
    IF i = WalkBound THEN RelPath
    ELSE IF has_agent(curr) THEN AbsPath(curr)
    ELSE IF has_skills(curr) /\ has_agent(parent(curr)) THEN AbsPath(parent(curr))
    ELSE IF parent(curr) = curr THEN RelPath
    ELSE agent_walk(parent(curr), i + 1)
find_agent_root(start) == agent_walk(start, 0)

\* execute_task.find_repo_root: the path of the repository root; the fallback
\* is Path.cwd()
RECURSIVE repo_walk(_, _)
repo_walk(curr, i) ==
    IF i = WalkBound THEN AbsPath(0)
    ELSE IF has_agent(curr) THEN AbsPath(curr)
    ELSE IF parent(curr) = curr THEN AbsPath(0)
    ELSE repo_walk(parent(curr), i + 1)
find_repo_root(start) == repo_walk(start, 0)

InitialConfigs == {ABSENT, "[]", "{execution_backend: gemini}"}
SmallSubsets(S) == {T \in SUBSET S : Cardinality(T) <= MaxMarkers}

WalkInit ==
    /\ height \in 0..MaxHeight
    /\ agent_dirs \in SmallSubsets(0..height)
    /\ skills_dirs \in SmallSubsets(0..height)
    /\ \E c \in InitialConfigs :
           cfg_files = [l \in 0..height |-> IF l \in agent_dirs THEN c ELSE ABSENT]
    /\ last_set = "none" /\ walk_pc = "idle" /\ walk_dispatched = "none"
    /\ ExecIdle /\ PipeIdle

\* set_backend.main with --backend b, run from D: load_config(), item
\* assignment, save_config() (config.py 42-50: mkdir parents, overwrite)
SetBackend(b) ==
    /\ walk_pc \in {"idle", "set", "set_failed"}
    /\ LET root == resolve(find_agent_root(0))
           current_config == load_config(cfg_files[root])
       IN  IF current_config.type = "dict"
           THEN /\ agent_dirs' = agent_dirs \cup {root}
                /\ cfg_files' = [cfg_files EXCEPT ![root] = json_dumps(Dict(TRUE, Str(b)))]
                /\ last_set' = b
                /\ walk_pc' = "set"
           ELSE \* TypeError: list indices must be integers
                /\ walk_pc' = "set_failed"
                /\ UNCHANGED <<agent_dirs, cfg_files, last_set>>
    /\ UNCHANGED <<height, skills_dirs, walk_dispatched>>
    /\ UNCHANGED <<exec_vars, pipe_vars>>

\* execute_task.main run from D, up to the choice of the backend function:
\* find_repo_root(Path.cwd()), load_config(repo_root / ".agent"), cfg.get, if/else
ExecuteFromCwd ==
    /\ walk_pc = "set"
    /\ LET repo_root == resolve(find_repo_root(0))
           cfg == load_config(cfg_files[repo_root])
       IN  IF cfg.type = "dict"
           THEN /\ walk_dispatched' = select_backend(cfg_get(cfg))
                /\ walk_pc' = "executed"
           ELSE /\ walk_dispatched' = "none"
                /\ walk_pc' = "raised"
    /\ UNCHANGED <<height, agent_dirs, skills_dirs, cfg_files, last_set>>
    /\ UNCHANGED <<exec_vars, pipe_vars>>

WalkNext ==
    \/ \E b \in {"gemini", "claude"} : SetBackend(b)
    \/ ExecuteFromCwd

WalkSpec == WalkInit /\ [][WalkNext]_vars

\* C8: the configuration accessor and the executor resolve the same marker
\* directory, find_agent_root(D) = find_repo_root(D)/.agent, so an
\* execute_task started from D after set_backend --backend b completed from D
\* dispatches to backend b.
C8_SameMarkerDirectory ==
    walk_pc \in {"executed", "raised"} =>
        /\ resolve(find_agent_root(0)) = resolve(find_repo_root(0))
        /\ walk_dispatched = last_set

(***************************************************************************)
(* PipeSpec: the streaming hand-off (run_gemini_backend 101-126,           *)
(* run_claude_backend 206-234) over two pipes of PipeCap units.  The child *)
(* performs a scripted sequence of reads ("r") and writes ("w"), then      *)
(* reads its input to end-of-input, closes its output and exits.           *)
(***************************************************************************)
ChildScripts == UNION {[1..k -> {"r", "w"}] : k \in 0..MaxChildOps}

PipeInit ==
    /\ p_pc = "write"
    /\ prompt_len \in 1..MaxPrompt
    /\ written = 0
    /\ stdin_buf = 0 /\ stdin_closed = FALSE
    /\ stdout_buf = 0 /\ stdout_closed = FALSE
    /\ child_prog \in ChildScripts
    /\ child_pc = "running"
    /\ ExecIdle /\ WalkIdle

\* process.stdin.write(prompt): a blocking write, one unit at a time while the
\* pipe has room
StdinWrite ==
    /\ p_pc = "write"
    /\ written < prompt_len
    /\ stdin_buf < PipeCap
    /\ written' = written + 1
    /\ stdin_buf' = stdin_buf + 1
    /\ UNCHANGED <<p_pc, prompt_len, stdin_closed, stdout_buf, stdout_closed,
                   child_prog, child_pc>>
    /\ UNCHANGED <<exec_vars, walk_vars>>

\* process.stdin.close(), reached once the whole prompt is written
StdinClose ==
    /\ p_pc = "write"
    /\ written = prompt_len
    /\ stdin_closed' = TRUE
    /\ p_pc' = "read_loop"
    /\ UNCHANGED <<prompt_len, written, stdin_buf, stdout_buf, stdout_closed,
                   child_prog, child_pc>>
    /\ UNCHANGED <<exec_vars, walk_vars>>

\* process.stdout.readline() that returns data
StdoutRead ==
    /\ p_pc = "read_loop"
    /\ stdout_buf > 0
    /\ stdout_buf' = stdout_buf - 1
    /\ UNCHANGED <<p_pc, prompt_len, written, stdin_buf, stdin_closed,
                   stdout_closed, child_prog, child_pc>>
    /\ UNCHANGED <<exec_vars, walk_vars>>

\* readline() returns "" at end-of-file and process.poll() is not None
LoopExit ==
    /\ p_pc = "read_loop"
    /\ stdout_buf = 0 /\ stdout_closed
    /\ child_pc = "exited"
    /\ p_pc' = "returned"
    /\ UNCHANGED <<prompt_len, written, stdin_buf, stdin_closed, stdout_buf,
                   stdout_closed, child_prog, child_pc>>
    /\ UNCHANGED <<exec_vars, walk_vars>>

\* the child reads one unit of its input, or sees end-of-input
ChildRead ==
    /\ child_pc = "running"
    /\ child_prog # <<>> /\ Head(child_prog) = "r"
    /\ \/ stdin_buf > 0 /\ stdin_buf' = stdin_buf - 1
       \/ stdin_buf = 0 /\ stdin_closed /\ stdin_buf' = stdin_buf
    /\ child_prog' = Tail(child_prog)
    /\ UNCHANGED <<p_pc, prompt_len, written, stdin_closed, stdout_buf,
                   stdout_closed, child_pc>>
    /\ UNCHANGED <<exec_vars, walk_vars>>

\* the child writes one unit of output, blocking while the pipe is full
ChildWrite ==
    /\ child_pc = "running"
    /\ child_prog # <<>> /\ Head(child_prog) = "w"
    /\ stdout_buf < PipeCap
    /\ stdout_buf' = stdout_buf + 1
    /\ child_prog' = Tail(child_prog)
    /\ UNCHANGED <<p_pc, prompt_len, written, stdin_buf, stdin_closed,
                   stdout_closed, child_pc>>
    /\ UNCHANGED <<exec_vars, walk_vars>>

\* after its script the child reads the rest of its input
ChildDrain ==
    /\ child_pc = "running"
    /\ child_prog = <<>>
    /\ stdin_buf > 0
    /\ stdin_buf' = stdin_buf - 1
    /\ UNCHANGED <<p_pc, prompt_len, written, stdin_closed, stdout_buf,
                   stdout_closed, child_prog, child_pc>>
    /\ UNCHANGED <<exec_vars, walk_vars>>

\* at end-of-input the child closes its output and exits
ChildExit ==
    /\ child_pc = "running"
    /\ child_prog = <<>>
    /\ stdin_buf = 0 /\ stdin_closed
    /\ stdout_closed' = TRUE
    /\ child_pc' = "exited"
    /\ UNCHANGED <<p_pc, prompt_len, written, stdin_buf, stdin_closed,
                   stdout_buf, child_prog>>
    /\ UNCHANGED <<exec_vars, walk_vars>>

Parent == StdinWrite \/ StdinClose \/ StdoutRead \/ LoopExit
Child == ChildRead \/ ChildWrite \/ ChildDrain \/ ChildExit

PipeNext ==
    \/ StdinWrite
    \/ StdinClose
    \/ StdoutRead
    \/ LoopExit
    \/ ChildRead
    \/ ChildWrite
    \/ ChildDrain
    \/ ChildExit

\* both processes are scheduled by the operating system whenever they can run
PipeSpec == PipeInit /\ [][PipeNext]_vars /\ WF_vars(Parent) /\ WF_vars(Child)

\* C9: in the streaming path, for every child that reads its input to
\* end-of-input, closes its output and exits, the parent writes the whole
\* prompt, closes the input, drains the output and eventually returns.
C9_ParentEventuallyReturns == <>(p_pc = "returned")

====
